---- MODULE Spec2Model ----
(***************************************************************************)
(* Model of the ClickHouse performance-test launcher                       *)
(* (dbms/programs/performance-test/PerformanceTest.cpp).                   *)
(*                                                                         *)
(* The model follows the control flow of processTestsConfigurations,       *)
(* runTest, runQueries, execute, checkFulfilledConditionsAndUpdate,        *)
(* constructTotalInfo and minOutput.  The backend stream is an external    *)
(* service: it delivers progress events and then ends or throws.           *)
(***************************************************************************)
EXTENDS Integers, Sequences, FiniteSets, TLC

\* ------------------------------------------------------------------------
\* Bounds of the model
\* ------------------------------------------------------------------------
MaxTests == 2        \* test configurations processed by one process
MaxQueries == 2      \* resolved queries of one test
MaxTimes == 2        \* times_to_run of one test
MaxThreshold == 2    \* largest threshold of a stop condition
MaxExecutes == 4     \* execute() calls made by one process
MaxMessages == 1     \* progress events and exceptions sent by the backend to one process
MaxSlots == 4        \* run slots allocated by one process
MaxPreconditions == 1 \* entries of the "preconditions" block of one test
MaxConfigs == 2      \* test configurations handed to filterConfigurations
MaxPieces == 2       \* letters and tokens of one query template
MaxValues == 2       \* values of one substitution
MaxDeclarations == 2 \* <substitution> entries in the configuration of one test
MaxGrowth == 2       \* characters a query may grow by under substitution

VARIABLES
    pc,                     \* position of the single thread of the process
    thrown_at,              \* source line of the exception that ended the process, 0 if none
    lite_output,            \* PerformanceTest::lite_output
    clear_resets_result,    \* whether TestStats::clear() resets ready and exception: the
                            \* answers still open, one once clear() has acted on a result
    interrupt_requested,    \* state of interrupt_listener (signal delivered)
    gotSIGINT,              \* PerformanceTest::gotSIGINT
    tests_done,             \* position of the loop over tests_configurations
    test_config,            \* the configuration handed to runTest
    queries,                \* PerformanceTest::queries
    exec_type,              \* PerformanceTest::exec_type
    times_to_run,           \* PerformanceTest::times_to_run
    main_metric,            \* PerformanceTest::main_metric
    metrics,                \* local `metrics` of runTest
    stop_conditions_by_run, \* PerformanceTest::stop_conditions_by_run
    statistics_by_run,      \* PerformanceTest::statistics_by_run
    number_of_launch,       \* loop variable of runTest
    query_index,            \* position of runQueries in queries_with_indexes
    iteration,              \* loop variable of runQueries, 0 during the first execute
    stream,                 \* the RemoteBlockInputStream of the invocation in flight
    output,                 \* value returned by runTest for the current test
    outputs,                \* local `outputs` of processTestsConfigurations: the tests whose report it holds
    stdout,                 \* the tests whose report has been written to std::cout
    invocations,            \* history: execute() calls per slot of the current test
    finished,               \* history: slots of the current test that ended with gotSIGINT unset
    thrown,                 \* history: slots of the current test whose execute() threw
    sigint_at_entry,        \* history: gotSIGINT when runTest was entered
    executes,               \* history: execute() calls made by the process
    messages,               \* history: progress events and exceptions received by the process
    tests_configurations,   \* PerformanceTest::tests_configurations, before the loop over it
    filters,                \* tests_tags, tests_names, tests_names_regexp, skip_tags,
                            \* skip_names and skip_names_regexp of PerformanceTest
    query,                  \* formatQueries: the parameter `query`
    substitutions_to_generate, \* formatQueries: the parameter of that name
    stack,                  \* the calls of runThroughAllOptionsAndPush in progress
    queries_res,            \* formatQueries: the local `queries_res`
    assignments,            \* history: for each query of queries_res, the values chosen
    substituted,            \* history: the variables whose token was found in a template
    omitted,                \* history: the variable left out of the second call of
                            \* formatQueries and the outcome of the first call
    slots,                  \* history: run slots allocated by the process
    substitutions,          \* member substitutions: per test name, the value lists by name
    calls,                  \* history: per slot of the current test, the reset() and clear()
                            \* calls and the query that was executed (0: none)
    settings,               \* PerformanceTest::settings, the value of each known setting
    profiles_file           \* PerformanceTest::profiles_file

vars == <<pc, thrown_at, lite_output, clear_resets_result, interrupt_requested,
          gotSIGINT, tests_done, test_config, queries, exec_type, times_to_run,
          main_metric, metrics, stop_conditions_by_run, statistics_by_run,
          number_of_launch, query_index, iteration, stream, output, outputs,
          stdout, invocations, finished, thrown, sigint_at_entry, executes,
          messages, tests_configurations, filters, query,
          substitutions_to_generate, stack, queries_res, assignments,
          substituted, omitted, slots, substitutions, calls, settings,
          profiles_file>>

\* ------------------------------------------------------------------------
\* Helpers
\* ------------------------------------------------------------------------
Range(s) == {s[i] : i \in DOMAIN s}

Contains(s, x) == x \in Range(s)

\* Mutant: the vector only grows, a shorter test keeps the longer array
Resize_GrowOnly(s, n, default) ==
    [i \in 1..(IF Len(s) > n THEN Len(s) ELSE n) |->
        IF i <= Len(s) THEN s[i] ELSE default]

\* std::vector::resize: keeps the leading elements, appends default ones
Resize(s, n, default) ==
    [i \in 1..n |-> IF i <= Len(s) THEN s[i] ELSE default]

\* ------------------------------------------------------------------------
\* Metric vocabularies (checkMetricsInput)
\* ------------------------------------------------------------------------
loop_metrics ==
    <<"min_time", "quantiles", "total_time", "queries_per_second",
      "rows_per_second", "bytes_per_second">>

non_loop_metrics ==
    <<"max_rows_per_second", "max_bytes_per_second", "avg_rows_per_second",
      "avg_bytes_per_second">>

\* Mutant: only the loop branch of checkMetricsInput checks anything
checkMetricsInput_OnlyLoop(type, ms) ==
    IF type = "loop"
    THEN IF \E i \in DOMAIN ms : Contains(non_loop_metrics, ms[i]) THEN 624 ELSE 0
    ELSE 0

\* Line of the exception thrown by checkMetricsInput, 0 if it returns
checkMetricsInput(type, ms) ==
    IF type = "loop"
    THEN IF \E i \in DOMAIN ms : Contains(non_loop_metrics, ms[i]) THEN 624 ELSE 0
    ELSE IF \E i \in DOMAIN ms : Contains(loop_metrics, ms[i]) THEN 630 ELSE 0

\* ------------------------------------------------------------------------
\* Test configurations (the input of runTest)
\* ------------------------------------------------------------------------
\* What the configuration says about the source of the queries: no field,
\* both fields, <query> fields, or a <query_file> whose name is empty, whose
\* .tsv file has no line, or that holds queries
Sources ==
    {"none", "both", "query", "empty_file_name", "empty_tsv_file", "query_file"}

Types == {"", "loop", "once", "other"}

\* The rows that one progress event reports
RowsOfEvent == {1}

MetricLists == {<<>>, <<"min_time">>, <<"max_rows_per_second">>}
MainMetrics == {"", "min_time", "avg_rows_per_second"}

\* The main metric that fits an execution type
OwnMetric(type) == IF type = "loop" THEN "min_time" ELSE "avg_rows_per_second"

\* The simplest well-formed configuration: one query, run once, in once mode
BaseConfig ==
    [source |-> "query", nq |-> 1, type |-> "once", times_to_run |-> 1,
     iterations |-> 1, rows_read |-> 0, total_time |-> 0,
     min_time_not_changing_for |-> 0, metrics |-> <<>>,
     main_metric |-> "avg_rows_per_second"]

\* The inputs of runTest are BaseConfig with one of its parts changed.
\* The source of the queries:
SourceConfigs == {[BaseConfig EXCEPT !.source = s] : s \in Sources}

\* The number of queries and of launches, in both execution types:
ShapeConfigs ==
    {[BaseConfig EXCEPT !.nq = q, !.times_to_run = r, !.type = t,
                        !.main_metric = OwnMetric(t)] :
        q \in 1..MaxQueries, r \in 0..MaxTimes, t \in {"loop", "once"}}

\* The <type> field:
TypeConfigs == {[BaseConfig EXCEPT !.type = t] : t \in Types}

\* The stop conditions, in both execution types:
StopConfigs ==
    {[BaseConfig EXCEPT !.type = t, !.main_metric = OwnMetric(t),
                        !.iterations = i, !.rows_read = w] :
        t \in {"loop", "once"}, i \in {0, 1, MaxThreshold},
        w \in {0} \cup RowsOfEvent}

\* The requested metrics, in both execution types:
MetricConfigs ==
    {[BaseConfig EXCEPT !.type = t, !.metrics = ms, !.main_metric = mm] :
        t \in {"loop", "once"}, ms \in MetricLists, mm \in MainMetrics}

\* The time conditions alone, in both execution types: the running time
\* of the slot and the time for which the minimal query time has not changed
TimeConfigs ==
    {[BaseConfig EXCEPT !.type = t, !.main_metric = OwnMetric(t),
                        !.iterations = 0, !.total_time = tm[1],
                        !.min_time_not_changing_for = tm[2]] :
        t \in {"loop", "once"},
        tm \in ((0..MaxThreshold) \X (0..MaxThreshold)) \ {<<0, 0>>}}

TestConfigs ==
    SourceConfigs \cup ShapeConfigs \cup TypeConfigs \cup StopConfigs
        \cup MetricConfigs

\* The value of test_config while runTest is not running
NoConfig ==
    [source |-> "none", nq |-> 0, type |-> "", times_to_run |-> 0,
     iterations |-> 0, rows_read |-> 0, total_time |-> 0,
     min_time_not_changing_for |-> 0, metrics |-> <<>>, main_metric |-> ""]

\* The stop conditions template loaded from the configuration
\* Of the seven kinds of condition the model follows four: a counter of
\* the loop, a counter of the data, the clock of the slot and one of the
\* clocks that restart (the other three kinds repeat these shapes).
\* `fulfilled` holds the kinds whose threshold a report has met.
StopConditionsTemplate(cfg) ==
    [iterations_limit |-> cfg.iterations, rows_read_limit |-> cfg.rows_read,
     total_time_limit |-> cfg.total_time,
     min_time_not_changing_for_limit |-> cfg.min_time_not_changing_for,
     iterations |-> 0, rows_read |-> 0, total_time |-> 0,
     min_time_not_changing_for |-> 0, fulfilled |-> {}]

\* TestStopConditions::empty(): no predicate is configured
StopConditionsEmpty(sc) ==
    /\ sc.iterations_limit = 0
    /\ sc.rows_read_limit = 0
    /\ sc.total_time_limit = 0
    /\ sc.min_time_not_changing_for_limit = 0

\* TestStopConditions::reset()
StopConditionsReset(sc) ==
    [sc EXCEPT !.iterations = 0, !.rows_read = 0, !.total_time = 0,
               !.min_time_not_changing_for = 0, !.fulfilled = {}]

\* The configured threshold of one kind of condition, 0 if there is none
Threshold(sc, kind) ==
    CASE kind = "iterations" -> sc.iterations_limit
      [] kind = "rows_read" -> sc.rows_read_limit
      [] kind = "total_time" -> sc.total_time_limit
      [] kind = "min_time_not_changing_for" ->
            sc.min_time_not_changing_for_limit

\* TestStopConditions::reportIterations(), reportRowsRead(),
\* reportTotalTime() and reportMinTimeNotChangingFor(): the value is
\* recorded, and a value that meets the configured threshold of its kind
\* fulfils that kind until reset()
Report(sc, kind, value) ==
    [sc EXCEPT ![kind] = value,
               !.fulfilled =
                   IF Threshold(sc, kind) > 0 /\ value >= Threshold(sc, kind)
                   THEN @ \cup {kind}
                   ELSE @]

\* TestStopConditions::areFulfilled(): some configured threshold is met
areFulfilled(sc) == sc.fulfilled # {}

\* The metrics list after main_metric has been merged into it (lines 558-571)
MergedMetrics(cfg) ==
    IF cfg.main_metric # "" /\ ~Contains(cfg.metrics, cfg.main_metric)
    THEN Append(cfg.metrics, cfg.main_metric)
    ELSE cfg.metrics

\* Source line at which runTest throws for this configuration, 0 if it
\* reaches the execution loop.
ThrowLine(cfg, lite) ==
    IF cfg.source = "none" THEN 464
    ELSE IF cfg.source = "both" THEN 469
    ELSE IF cfg.source = "empty_file_name" THEN 481
    ELSE IF cfg.source = "empty_tsv_file" THEN 506
    ELSE IF cfg.type = "" THEN 526
    ELSE IF cfg.type \notin {"loop", "once"} THEN 535
    ELSE IF StopConditionsEmpty(StopConditionsTemplate(cfg)) THEN 548
    ELSE IF cfg.main_metric = "" /\ cfg.metrics = <<>> THEN 575
    ELSE IF cfg.main_metric = "" /\ lite THEN 578
    ELSE IF Len(MergedMetrics(cfg)) > 0
         THEN checkMetricsInput(cfg.type, MergedMetrics(cfg))
         ELSE 0

\* ------------------------------------------------------------------------
\* TestStats
\* ------------------------------------------------------------------------
NewTestStats ==
    [ready |-> FALSE, exception |-> "", queries |-> 0, total_rows_read |-> 0,
     last_query_was_cancelled |-> FALSE, watch |-> 0]

\* TestStats::clear(); `resets` says whether it resets ready and exception
StatsClear(st, resets) ==
    [st EXCEPT !.queries = 0, !.total_rows_read = 0,
               !.last_query_was_cancelled = FALSE, !.watch = 0,
               !.ready = IF resets THEN FALSE ELSE @,
               !.exception = IF resets THEN "" ELSE @]

\* A RemoteBlockInputStream as constructed at line 677; also the value of
\* `stream` while no execute() is in progress
NewStream == [cancelled |-> FALSE]

\* ------------------------------------------------------------------------
\* Initial state: the state after construction of PerformanceTest
\* ------------------------------------------------------------------------
\* Line 442-449, APPLY_FOR_SETTINGS: the names that Settings knows; a name
\* of the configuration outside this table is not applied
KnownSettings == {"max_threads", "max_memory_usage"}

\* Line 148: a Settings object as its default constructor leaves it
DefaultSettings == [name \in KnownSettings |-> "default"]

\* ------------------------------------------------------------------------
\* The members of the object that the run of the tests uses, as the
\* constructor leaves them
Constructed ==
    /\ thrown_at = 0
    /\ clear_resets_result = BOOLEAN
    /\ interrupt_requested = FALSE
    /\ gotSIGINT = FALSE
    /\ tests_done = 0
    /\ test_config = NoConfig
    /\ queries = <<>>
    /\ exec_type = "once"
    /\ times_to_run = 1
    /\ main_metric = ""
    /\ metrics = <<>>
    /\ stop_conditions_by_run = <<>>
    /\ statistics_by_run = <<>>
    /\ number_of_launch = 0
    /\ query_index = 0
    /\ iteration = 0
    /\ stream = NewStream
    /\ output = <<>>
    /\ outputs = <<>>
    /\ stdout = <<>>
    /\ invocations = <<>>
    /\ calls = <<>>
    /\ substitutions = <<>>
    /\ settings = DefaultSettings
    /\ finished = {}
    /\ thrown = {}
    /\ sigint_at_entry = FALSE
    /\ executes = 0
    /\ messages = 0
    /\ slots = 0

\* formatQueries is not running
NotFormatting ==
    /\ query = <<>>
    /\ substitutions_to_generate = <<>>
    /\ stack = <<>>
    /\ queries_res = <<>>
    /\ assignments = <<>>
    /\ substituted = {}
    /\ omitted = <<>>

\* No filter option was given on the command line
NoFilters ==
    [tests_tags |-> {}, tests_names |-> {}, tests_names_regexp |-> {},
     skip_tags |-> {}, skip_names |-> {}, skip_names_regexp |-> {}]

Init ==
    /\ pc = "main"
    /\ lite_output \in BOOLEAN
    /\ profiles_file = ""
    /\ tests_configurations = <<>>
    /\ filters = NoFilters
    /\ NotFormatting
    /\ Constructed


\* ------------------------------------------------------------------------
\* processTestsConfigurations and runTest
\* ------------------------------------------------------------------------

\* The slot of the query that runQueries is at (statistic_index, line 591)
run_index == number_of_launch * Len(queries) + query_index

\* Lines 266-341: the outcome of one entry of the "preconditions" block, as
\* the environment decides it: the entry holds (the cache is flushed, the
\* memory suffices, the table exists), it fails (lines 283, 297 and 335
\* return false), or the memory size cannot be read (line 292)
PreconditionOutcomes == {"holds", "fails", "ram_unavailable"}

\* The "preconditions" blocks tried; <<>> is a test without the block
Preconditions ==
    UNION {[1..k -> PreconditionOutcomes] : k \in 0..MaxPreconditions}

\* Lines 266-341: the entries are checked in order; the first failing one
\* returns false, an unavailable memory size throws
RECURSIVE checkPreconditions(_)
checkPreconditions(pre) ==
    IF pre = <<>> THEN "true"
    ELSE CASE Head(pre) = "fails" -> "false"
           [] Head(pre) = "ram_unavailable" -> "throw"
           [] OTHER -> checkPreconditions(Tail(pre))

\* Mutant: a failed precondition returns from the loop over the tests
SkipTest_Return(pre) ==
    /\ pc = "main"
    /\ tests_done < MaxTests
    /\ checkPreconditions(pre) = "false"
    /\ tests_done' = tests_done + 1
    /\ pc' = "done"
    /\ UNCHANGED <<thrown_at, lite_output, clear_resets_result,
                   interrupt_requested, gotSIGINT, test_config, queries,
                   exec_type, times_to_run, main_metric, metrics,
                   stop_conditions_by_run, statistics_by_run, number_of_launch,
                   query_index, iteration, stream, output, outputs, stdout,
                   invocations, finished, thrown, sigint_at_entry, executes,
                   messages, tests_configurations, filters, query,
                   substitutions_to_generate, stack, queries_res, assignments,
                   substituted, omitted, slots, substitutions, calls, settings,
                   profiles_file>>

\* Lines 361-365: checkPreconditions returned false, the test is skipped
\* and the loop continues with the next test
SkipTest(pre) ==
    /\ pc = "main"
    /\ tests_done < MaxTests
    /\ checkPreconditions(pre) = "false"
    /\ tests_done' = tests_done + 1
    /\ UNCHANGED <<pc, thrown_at, lite_output, clear_resets_result,
                   interrupt_requested, gotSIGINT, test_config, queries,
                   exec_type, times_to_run, main_metric, metrics,
                   stop_conditions_by_run, statistics_by_run, number_of_launch,
                   query_index, iteration, stream, output, outputs, stdout,
                   invocations, finished, thrown, sigint_at_entry, executes,
                   messages, tests_configurations, filters, query,
                   substitutions_to_generate, stack, queries_res, assignments,
                   substituted, omitted, slots, substitutions, calls, settings,
                   profiles_file>>

\* Line 292: the memory size cannot be read, checkPreconditions throws and
\* the exception leaves main(); the object's data are released
PreconditionThrow(pre) ==
    /\ pc = "main"
    /\ tests_done < MaxTests
    /\ checkPreconditions(pre) = "throw"
    /\ pc' = "failed"
    /\ thrown_at' = 292
    /\ queries' = <<>>
    /\ exec_type' = "once"
    /\ times_to_run' = 1
    /\ stop_conditions_by_run' = <<>>
    /\ main_metric' = ""
    /\ statistics_by_run' = <<>>
    /\ outputs' = <<>>
    /\ UNCHANGED <<lite_output, clear_resets_result, interrupt_requested,
                   gotSIGINT, tests_done, test_config, metrics,
                   number_of_launch, query_index, iteration, stream, output,
                   stdout, invocations, finished, thrown, sigint_at_entry,
                   executes, messages, tests_configurations, filters, query,
                   substitutions_to_generate, stack, queries_res, assignments,
                   substituted, omitted, slots, substitutions, calls, settings,
                   profiles_file>>

\* Line 361: checkPreconditions returned true for the test that is run
PreconditionsHold ==
    {pre \in Preconditions : checkPreconditions(pre) = "true"} # {}

\* Mutant: the instances are pushed before the template is checked
PushedStopConditions_BeforeCheck(cfg, line) ==
    IF line = 0 \/ line >= 548 THEN cfg.times_to_run * cfg.nq ELSE 0

\* Lines 539-551: the number of stop-condition instances that runTest has
\* pushed when it throws at `line`, or when it reaches the execution loop
\* (line 0)
PushedStopConditions(cfg, line) ==
    IF line = 0 \/ line > 548 THEN cfg.times_to_run * cfg.nq ELSE 0

\* Lines 408-584: runTest up to the execution loop.  When it throws, the
\* exception unwinds the stack to line 1092: the PerformanceTest object and
\* the local `outputs` are destroyed, the data of the tests is gone;
\* stop_conditions_by_run is kept as runTest had filled it when it threw.
RunTest(cfg) ==
    LET line == ThrowLine(cfg, lite_output)
        n == cfg.times_to_run * cfg.nq
    IN
    /\ pc = "main"
    /\ tests_done < MaxTests
    /\ PreconditionsHold
    /\ test_config' = cfg
    /\ thrown_at' = line
    /\ number_of_launch' = 0
    /\ query_index' = 0
    /\ iteration' = 0
    /\ output' = <<>>
    /\ finished' = {}
    /\ thrown' = {}
    /\ sigint_at_entry' = gotSIGINT
    /\ IF line = 0
       THEN /\ slots + n <= MaxSlots
            /\ slots' = slots + n
            /\ queries' = [i \in 1..cfg.nq |-> i]
            /\ exec_type' = cfg.type
            /\ times_to_run' = cfg.times_to_run
            /\ stop_conditions_by_run' =
                  [i \in 1..PushedStopConditions(cfg, line) |->
                      StopConditionsTemplate(cfg)]
            /\ main_metric' =
                  IF cfg.main_metric # "" THEN cfg.main_metric ELSE cfg.metrics[1]
            /\ metrics' = MergedMetrics(cfg)
            /\ statistics_by_run' = Resize(statistics_by_run, n, NewTestStats)
            /\ invocations' = [i \in 1..n |-> 0]
            /\ calls' = [i \in 1..n |-> [reset |-> 0, clear |-> 0, query |-> 0]]
            /\ pc' = "launch"
            /\ UNCHANGED outputs
       ELSE /\ queries' = <<>>
            /\ exec_type' = "once"
            /\ times_to_run' = 1
            /\ stop_conditions_by_run' =
                  [i \in 1..PushedStopConditions(cfg, line) |->
                      StopConditionsTemplate(cfg)]
            /\ main_metric' = ""
            /\ metrics' = <<>>
            /\ statistics_by_run' = <<>>
            /\ invocations' = <<>>
            /\ calls' = <<>>
            /\ outputs' = <<>>
            /\ pc' = "failed"
            /\ UNCHANGED slots
    /\ UNCHANGED <<lite_output, clear_resets_result, interrupt_requested,
                   gotSIGINT, tests_done, stream, stdout, executes, messages,
                   tests_configurations, filters, query,
                   substitutions_to_generate, stack, queries_res, assignments,
                   substituted, omitted, substitutions, settings, profiles_file>>

\* Mutant: the loop over launches does not look at gotSIGINT
LaunchBreak_Never(sig) == FALSE

\* Line 600: if (gotSIGINT) break;
LaunchBreak(sig) == sig

\* Mutant: every launch resets the stop conditions of all slots
ResetAtLaunch_All(i, first, n) == TRUE

\* Lines 587-592: the launch resets the stop conditions of its own slots,
\* the slots first .. first + n - 1 (counted from zero)
ResetAtLaunch(i, first, n) == i > first /\ i <= first + n

\* Lines 585-603: one step of the loop over launches
Launch ==
    LET first == number_of_launch * Len(queries)
        sig == gotSIGINT \/ interrupt_requested
    IN
    /\ pc = "launch"
    /\ IF number_of_launch < times_to_run
       THEN /\ stop_conditions_by_run' =
                  [i \in DOMAIN stop_conditions_by_run |->
                      IF ResetAtLaunch(i, first, Len(queries))
                      THEN StopConditionsReset(stop_conditions_by_run[i])
                      ELSE stop_conditions_by_run[i]]
            /\ calls' =
                  [i \in DOMAIN calls |->
                      IF ResetAtLaunch(i, first, Len(queries))
                      THEN [calls[i] EXCEPT !.reset = @ + 1]
                      ELSE calls[i]]
            /\ gotSIGINT' = sig
            /\ pc' = IF LaunchBreak(sig) THEN "output" ELSE "query"
       ELSE /\ pc' = "output"
            /\ UNCHANGED <<stop_conditions_by_run, gotSIGINT, calls>>
    /\ query_index' = 0
    /\ UNCHANGED <<thrown_at, lite_output, clear_resets_result,
                   interrupt_requested, tests_done, test_config, queries,
                   exec_type, times_to_run, main_metric, metrics,
                   statistics_by_run, number_of_launch, iteration, stream,
                   output, outputs, stdout, invocations, finished, thrown,
                   sigint_at_entry, executes, messages, tests_configurations,
                   filters, query, substitutions_to_generate, stack,
                   queries_res, assignments, substituted, omitted, slots,
                   substitutions, settings, profiles_file>>

\* ------------------------------------------------------------------------
\* runQueries and execute
\* ------------------------------------------------------------------------

\* Lines 672-675: the beginning of execute()
ExecuteStart(st) == [st EXCEPT !.last_query_was_cancelled = FALSE]

\* Mutant: a slot that recorded an exception is not marked ready
SlotReady_NoException(sig, st) == ~sig /\ st.exception = ""

\* Line 663: if (!gotSIGINT) statistics.ready = true;
SlotReady(sig, st) == ~sig

\* Lines 663-667: the end of one pass of the loop of runQueries; the loop
\* variable `iteration` leaves its scope
SlotEnd(st) ==
    /\ statistics_by_run' =
          [statistics_by_run EXCEPT ![run_index + 1] =
              [st EXCEPT !.ready = IF SlotReady(gotSIGINT, st) THEN TRUE ELSE @]]
    /\ finished' = IF ~gotSIGINT THEN finished \cup {run_index} ELSE finished
    /\ query_index' = query_index + 1
    /\ iteration' = 0
    /\ pc' = "query"

\* Lines 636-644: the next query of the launch is cleared and executed.
\* clear() behaves in one of the ways still open; a call on a slot that
\* holds a result settles which
RunQueriesNext ==
    /\ pc = "query"
    /\ query_index < Len(queries)
    /\ executes < MaxExecutes
    /\ executes' = executes + 1
    /\ \E resets \in clear_resets_result :
          /\ statistics_by_run' =
                [statistics_by_run EXCEPT ![run_index + 1] =
                    ExecuteStart(StatsClear(@, resets))]
          /\ clear_resets_result' =
                IF StatsClear(statistics_by_run[run_index + 1], TRUE)
                       # StatsClear(statistics_by_run[run_index + 1], FALSE)
                THEN {resets}
                ELSE clear_resets_result
    /\ invocations' = [invocations EXCEPT ![run_index + 1] = @ + 1]
    /\ calls' = [calls EXCEPT ![run_index + 1].clear = @ + 1,
                           ![run_index + 1].query = queries[query_index + 1]]
    /\ pc' = "stream"
    /\ UNCHANGED <<thrown_at, lite_output, interrupt_requested, gotSIGINT,
                   tests_done, test_config, queries, exec_type, times_to_run,
                   main_metric, metrics, stop_conditions_by_run,
                   number_of_launch, query_index, iteration, stream, output,
                   outputs, stdout, finished, thrown, sigint_at_entry,
                   messages, tests_configurations, filters, query,
                   substitutions_to_generate, stack, queries_res, assignments,
                   substituted, omitted, slots, substitutions, settings,
                   profiles_file>>

\* Line 636 at the end of queries_with_indexes: runQueries returns (line 603)
RunQueriesReturn ==
    /\ pc = "query"
    /\ query_index >= Len(queries)
    /\ number_of_launch' = number_of_launch + 1
    /\ pc' = "launch"
    /\ UNCHANGED <<thrown_at, lite_output, clear_resets_result,
                   interrupt_requested, gotSIGINT, tests_done, test_config,
                   queries, exec_type, times_to_run, main_metric, metrics,
                   stop_conditions_by_run, statistics_by_run, query_index,
                   iteration, stream, output, outputs, stdout, invocations,
                   finished, thrown, sigint_at_entry, executes, messages,
                   tests_configurations, filters, query,
                   substitutions_to_generate, stack, queries_res, assignments,
                   substituted, omitted, slots, substitutions, calls, settings,
                   profiles_file>>

\* statistics.min_time_watch.elapsed() as line 701 may read it: the watch
\* restarts whenever a query was faster than all before it, so that a later
\* reading may be smaller than an earlier one. Only a test that has the
\* condition looks at the reading.
MinTimeWatch(cfg) ==
    IF cfg.min_time_not_changing_for > 0 THEN 0..MaxThreshold ELSE {0}

\* statistics.watch.elapsed() after one more execute() has run: every
\* execute() takes one unit of time, and the model follows the watch as far
\* as the largest threshold. Only a test that has the condition looks at
\* the reading.
WatchAfterExecute(cfg, elapsed) ==
    IF cfg.total_time > 0 /\ elapsed < MaxThreshold
    THEN elapsed + 1
    ELSE elapsed

\* The messages that the backend sends to one process: a test with a
\* watch that restarts gets one more, which is what a reading below an
\* earlier one takes
MessageBound(cfg) ==
    IF cfg.min_time_not_changing_for > 0 THEN MaxMessages + 1 ELSE MaxMessages

\* Mutant: only the interrupt cancels the stream
CancelOnProgress_InterruptOnly(fulfilled, interrupted) == interrupted

\* Lines 705-716: the stream is cancelled, and the query marked cancelled,
\* if the stop conditions are fulfilled (705) or the interrupt is seen (711)
CancelOnProgress(fulfilled, interrupted) == fulfilled \/ interrupted

\* Lines 693-717: checkFulfilledConditionsAndUpdate on one progress event
Progress(rows, unchanged_for) ==
    LET st == statistics_by_run[run_index + 1]
        sc == stop_conditions_by_run[run_index + 1]
        st1 == [st EXCEPT !.total_rows_read = @ + rows]
        sc1 == Report(Report(Report(sc, "rows_read", st1.total_rows_read),
                             "total_time", st1.watch),
                      "min_time_not_changing_for", unchanged_for)
        cancel == CancelOnProgress(areFulfilled(sc1), interrupt_requested)
    IN
    /\ pc = "stream"
    /\ messages < MessageBound(test_config)
    /\ messages' = messages + 1
    /\ statistics_by_run' =
          [statistics_by_run EXCEPT ![run_index + 1] =
              [st1 EXCEPT !.last_query_was_cancelled = IF cancel THEN TRUE ELSE @]]
    /\ stop_conditions_by_run' =
          [stop_conditions_by_run EXCEPT ![run_index + 1] = sc1]
    /\ gotSIGINT' = (gotSIGINT \/ interrupt_requested)
    /\ stream' = [cancelled |-> stream.cancelled \/ cancel]
    /\ UNCHANGED <<pc, thrown_at, lite_output, clear_resets_result,
                   interrupt_requested, tests_done, test_config, queries,
                   exec_type, times_to_run, main_metric, metrics,
                   number_of_launch, query_index, iteration, output, outputs,
                   stdout, invocations, finished, thrown, sigint_at_entry,
                   executes, tests_configurations, filters, query,
                   substitutions_to_generate, stack, queries_res, assignments,
                   substituted, omitted, slots, substitutions, calls, settings,
                   profiles_file>>

\* Mutant: the loop is entered whatever the execution type
InLoopMode_Always(type) == TRUE

\* Line 646: if (exec_type == ExecutionType::Loop)
InLoopMode(type) == type = "loop"

\* Mutant: every execute() that returns updates the query info
NaturalEnd_Always(st) == TRUE

\* Line 687: if (!statistics.last_query_was_cancelled)
NaturalEnd(st) == ~st.last_query_was_cancelled

\* Lines 685-690 and 646 (or the ++iteration of line 648): the stream ends
StreamEnd ==
    LET st == statistics_by_run[run_index + 1]
        st0 == [st EXCEPT !.watch = WatchAfterExecute(test_config, @)]
        st1 == IF NaturalEnd(st)
               THEN [st0 EXCEPT !.queries = @ + 1]
               ELSE st0
    IN
    /\ pc = "stream"
    /\ stream' = NewStream
    /\ IF InLoopMode(exec_type)
       THEN /\ statistics_by_run' =
                  [statistics_by_run EXCEPT ![run_index + 1] = st1]
            /\ iteration' = iteration + 1
            /\ pc' = "iteration"
            /\ UNCHANGED <<finished, query_index>>
       ELSE /\ SlotEnd(st1)
    /\ UNCHANGED <<thrown_at, lite_output, clear_resets_result,
                   interrupt_requested, gotSIGINT, tests_done, test_config,
                   queries, exec_type, times_to_run, main_metric, metrics,
                   stop_conditions_by_run, number_of_launch, output, outputs,
                   stdout, invocations, thrown, sigint_at_entry, executes,
                   messages, tests_configurations, filters, query,
                   substitutions_to_generate, stack, queries_res, assignments,
                   substituted, omitted, slots, substitutions, calls, settings,
                   profiles_file>>

\* Mutant: in loop mode the handler falls back into the loop
StreamThrow_Retry ==
    LET st == statistics_by_run[run_index + 1]
        st1 == [st EXCEPT !.exception = "exception"]
    IN
    /\ pc = "stream"
    /\ messages < MessageBound(test_config)
    /\ messages' = messages + 1
    /\ thrown' = thrown \cup {run_index}
    /\ stream' = NewStream
    /\ IF exec_type = "loop"
       THEN /\ statistics_by_run' =
                  [statistics_by_run EXCEPT ![run_index + 1] = st1]
            /\ iteration' = iteration + 1
            /\ pc' = "iteration"
            /\ UNCHANGED <<finished, query_index>>
       ELSE /\ SlotEnd(st1)
    /\ UNCHANGED <<thrown_at, lite_output, clear_resets_result,
                   interrupt_requested, gotSIGINT, tests_done, test_config,
                   queries, exec_type, times_to_run, main_metric, metrics,
                   stop_conditions_by_run, number_of_launch, output, outputs,
                   stdout, invocations, sigint_at_entry, executes,
                   tests_configurations, filters, query,
                   substitutions_to_generate, stack, queries_res, assignments,
                   substituted, omitted, slots, substitutions, calls, settings,
                   profiles_file>>

\* Lines 658-666: the stream throws a DB::Exception, which leaves the try block
StreamThrow ==
    LET st == statistics_by_run[run_index + 1]
        st1 == [st EXCEPT !.exception = "exception"]
    IN
    /\ pc = "stream"
    /\ messages < MessageBound(test_config)
    /\ messages' = messages + 1
    /\ thrown' = thrown \cup {run_index}
    /\ stream' = NewStream
    /\ SlotEnd(st1)
    /\ UNCHANGED <<thrown_at, lite_output, clear_resets_result,
                   interrupt_requested, gotSIGINT, tests_done, test_config,
                   queries, exec_type, times_to_run, main_metric, metrics,
                   stop_conditions_by_run, number_of_launch, output, outputs,
                   stdout, invocations, sigint_at_entry, executes,
                   tests_configurations, filters, query,
                   substitutions_to_generate, stack, queries_res, assignments,
                   substituted, omitted, slots, substitutions, calls, settings,
                   profiles_file>>

\* Mutant: the loop counts its iterations from zero
ReportedIterations_FromZero(it) == it - 1

\* Line 650: stop_conditions.reportIterations(iteration)
ReportedIterations(it) == it

\* Mutant: the loop looks at the number of iterations only
LoopStop_IterationsOnly(sc) == "iterations" \in sc.fulfilled

\* Line 651: if (stop_conditions.areFulfilled()) break;
LoopStop(sc) == areFulfilled(sc)

\* Lines 648-654: the loop condition, the iteration report and the next execute
LoopIteration ==
    LET st == statistics_by_run[run_index + 1]
        sc == stop_conditions_by_run[run_index + 1]
        sc1 == Report(sc, "iterations", ReportedIterations(iteration))
    IN
    /\ pc = "iteration"
    /\ IF gotSIGINT
       THEN /\ SlotEnd(st)
            /\ UNCHANGED <<stop_conditions_by_run, invocations, executes>>
       ELSE /\ stop_conditions_by_run' =
                  [stop_conditions_by_run EXCEPT ![run_index + 1] = sc1]
            /\ IF LoopStop(sc1)
               THEN /\ SlotEnd(st)
                    /\ UNCHANGED <<invocations, executes>>
               ELSE /\ executes < MaxExecutes
                    /\ executes' = executes + 1
                    /\ statistics_by_run' =
                          [statistics_by_run EXCEPT ![run_index + 1] = ExecuteStart(st)]
                    /\ invocations' = [invocations EXCEPT ![run_index + 1] = @ + 1]
                    /\ pc' = "stream"
                    /\ UNCHANGED <<finished, query_index, iteration>>
    /\ UNCHANGED <<thrown_at, lite_output, clear_resets_result,
                   interrupt_requested, gotSIGINT, tests_done, test_config,
                   queries, exec_type, times_to_run, main_metric, metrics,
                   number_of_launch, stream, output, outputs, stdout, thrown,
                   sigint_at_entry, messages, tests_configurations, filters,
                   query, substitutions_to_generate, stack, queries_res,
                   assignments, substituted, omitted, slots, substitutions,
                   calls, settings, profiles_file>>

\* ------------------------------------------------------------------------
\* Reports: constructTotalInfo and minOutput
\* ------------------------------------------------------------------------

\* The (query_index, number_of_launch) pairs in the order of the two nested
\* loops of constructTotalInfo and minOutput: query first, launch second.
ReportOrder ==
    [p \in 1..(Len(queries) * times_to_run) |->
        [query_index |-> (p - 1) \div times_to_run,
         number_of_launch |-> (p - 1) % times_to_run]]

\* Mutant: the index follows the order of the loops of the report
StatisticIndex_QueryMajor(pos) ==
    pos.query_index * times_to_run + pos.number_of_launch

\* Lines 833 and 941: statistics_by_run[number_of_launch * queries.size()
\* + query_index]
StatisticIndex(pos) == pos.number_of_launch * Len(queries) + pos.query_index

\* The metric keys that lines 857-907 write into a run record
ReportedMetrics(type, ms) ==
    {m \in Range(ms) :
        IF type = "loop" THEN Contains(loop_metrics, m)
        ELSE Contains(non_loop_metrics, m)}

\* Mutant: a record that carries an exception carries no metric values
RunJSON_ExceptionOnly(pos) ==
    LET st == statistics_by_run[StatisticIndex(pos) + 1] IN
    [slot |-> StatisticIndex(pos),
     query |-> queries[pos.query_index + 1],
     exception |-> st.exception,
     metrics |-> IF st.exception # "" THEN {}
                 ELSE ReportedMetrics(exec_type, metrics)]

\* Lines 838-907: the record of one run; exception "" stands for no such key
RunJSON(pos) ==
    LET st == statistics_by_run[StatisticIndex(pos) + 1] IN
    [slot |-> StatisticIndex(pos),
     query |-> queries[pos.query_index + 1],
     exception |-> st.exception,
     metrics |-> ReportedMetrics(exec_type, metrics)]

\* Line 835: if (!statistics.ready) continue;
IsReady(pos) == statistics_by_run[StatisticIndex(pos) + 1].ready

\* Lines 828-913: run_infos
constructTotalInfo ==
    LET included == SelectSeq(ReportOrder, IsReady) IN
    [i \in 1..Len(included) |-> RunJSON(included[i])]

\* Lines 926-942: one line of the lite output
MinOutputLine(pos) ==
    [slot |-> StatisticIndex(pos),
     query |-> queries[pos.query_index + 1],
     run |-> pos.number_of_launch + 1,
     main_metric |-> main_metric]

\* Lines 918-947
minOutput ==
    [i \in 1..Len(ReportOrder) |-> MinOutputLine(ReportOrder[i])]

\* Lines 606-609: runTest returns the report of the test; the loop variables
\* have left their scope
Output ==
    /\ pc = "output"
    /\ output' = IF lite_output THEN minOutput ELSE constructTotalInfo
    /\ number_of_launch' = 0
    /\ query_index' = 0
    /\ pc' = "returned"
    /\ UNCHANGED <<thrown_at, lite_output, clear_resets_result,
                   interrupt_requested, gotSIGINT, tests_done, test_config,
                   queries, exec_type, times_to_run, main_metric, metrics,
                   stop_conditions_by_run, statistics_by_run, iteration,
                   stream, outputs, stdout, invocations, finished, thrown,
                   sigint_at_entry, executes, messages, tests_configurations,
                   filters, query, substitutions_to_generate, stack,
                   queries_res, assignments, substituted, omitted, slots,
                   substitutions, calls, settings, profiles_file>>

\* Lines 367-371: the report is printed (lite) or kept for the final array;
\* the locals of runTest and the history of the test end here
Emit ==
    /\ pc = "returned"
    /\ IF lite_output
       THEN stdout' = Append(stdout, tests_done) /\ UNCHANGED outputs
       ELSE outputs' = Append(outputs, tests_done) /\ UNCHANGED stdout
    /\ tests_done' = tests_done + 1
    /\ pc' = "main"
    /\ output' = <<>>
    /\ test_config' = NoConfig
    /\ metrics' = <<>>
    /\ invocations' = <<>>
    /\ calls' = <<>>
    /\ finished' = {}
    /\ thrown' = {}
    /\ sigint_at_entry' = FALSE
    /\ UNCHANGED <<thrown_at, lite_output, clear_resets_result,
                   interrupt_requested, gotSIGINT, queries, exec_type,
                   times_to_run, main_metric, stop_conditions_by_run,
                   statistics_by_run, number_of_launch, query_index, iteration,
                   stream, executes, messages, tests_configurations, filters,
                   query, substitutions_to_generate, stack, queries_res,
                   assignments, substituted, omitted, slots, substitutions,
                   settings, profiles_file>>

\* Lines 374-388: after the last test the collected reports are printed;
\* run() returns (line 1090) and the PerformanceTest object is destroyed
Finish ==
    /\ pc = "main"
    /\ tests_done = MaxTests
    /\ stdout' = IF ~lite_output THEN stdout \o outputs ELSE stdout
    /\ outputs' = <<>>
    /\ queries' = <<>>
    /\ exec_type' = "once"
    /\ times_to_run' = 1
    /\ stop_conditions_by_run' = <<>>
    /\ main_metric' = ""
    /\ statistics_by_run' = <<>>
    /\ pc' = "done"
    /\ UNCHANGED <<thrown_at, lite_output, clear_resets_result,
                   interrupt_requested, gotSIGINT, tests_done, test_config,
                   metrics, number_of_launch, query_index, iteration, stream,
                   output, invocations, finished, thrown, sigint_at_entry,
                   executes, messages, tests_configurations, filters, query,
                   substitutions_to_generate, stack, queries_res, assignments,
                   substituted, omitted, slots, substitutions, calls, settings,
                   profiles_file>>

\* The interrupt signal is delivered to the process
Interrupt ==
    /\ pc \notin {"done", "failed"}
    /\ ~interrupt_requested
    /\ interrupt_requested' = TRUE
    /\ UNCHANGED <<pc, thrown_at, lite_output, clear_resets_result, gotSIGINT,
                   tests_done, test_config, queries, exec_type, times_to_run,
                   main_metric, metrics, stop_conditions_by_run,
                   statistics_by_run, number_of_launch, query_index, iteration,
                   stream, output, outputs, stdout, invocations, finished,
                   thrown, sigint_at_entry, executes, messages,
                   tests_configurations, filters, query,
                   substitutions_to_generate, stack, queries_res, assignments,
                   substituted, omitted, slots, substitutions, calls, settings,
                   profiles_file>>

Next ==
    \/ \E pre \in Preconditions : SkipTest(pre)
    \/ \E pre \in Preconditions : PreconditionThrow(pre)
    \/ \E cfg \in TestConfigs : RunTest(cfg)
    \/ Launch
    \/ RunQueriesNext
    \/ RunQueriesReturn
    \/ \E rows \in RowsOfEvent, unchanged_for \in MinTimeWatch(test_config) :
          Progress(rows, unchanged_for)
    \/ StreamEnd
    \/ StreamThrow
    \/ LoopIteration
    \/ Output
    \/ Emit
    \/ Finish
    \/ Interrupt

Spec == Init /\ [][Next]_vars

\* ------------------------------------------------------------------------
\* The run of tests whose stop conditions are conditions on time, with no
\* precondition and no interrupt
\* ------------------------------------------------------------------------
NextTime ==
    \/ \E cfg \in TimeConfigs : RunTest(cfg)
    \/ Launch
    \/ RunQueriesNext
    \/ RunQueriesReturn
    \/ \E rows \in RowsOfEvent, unchanged_for \in MinTimeWatch(test_config) :
          Progress(rows, unchanged_for)
    \/ StreamEnd
    \/ StreamThrow
    \/ LoopIteration
    \/ Output
    \/ Emit
    \/ Finish

SpecTime == Init /\ [][NextTime]_vars

\* The steps that the process takes by itself: the loops of runTest and
\* runQueries go on, and every execute() that is not interrupted by an
\* exception returns. Progress events, exceptions and the interrupt come
\* from outside and may never come.
ProcessStep ==
    \/ Launch
    \/ RunQueriesNext
    \/ RunQueriesReturn
    \/ StreamEnd
    \/ LoopIteration
    \/ Output
    \/ Emit
    \/ Finish

SpecTimeFair == SpecTime /\ WF_vars(ProcessStep)


\* ------------------------------------------------------------------------
\* filterConfigurations
\* ------------------------------------------------------------------------
\* Strings are sequences of characters: <<>> is the empty string.

\* The test configurations tried: the tags of the test, whether it has a
\* "name" field, and the field's value
FilteredConfigs ==
    [tags : {{}, {"t2"}, {"t1", "t2"}},
     has_name : {TRUE},
     name : {<<>>, <<"a">>}]
    \cup [tags : {{}, {"t2"}, {"t1", "t2"}}, has_name : {FALSE}, name : {<<>>}]

\* The filter options tried: --tags / --skip-tags, --names / --skip-names,
\* --names-regexp / --skip-names-regexp
FilterOptions ==
    [tests_tags : {{}, {"t1"}},
     tests_names : {{}, {<<>>}, {<<"a">>}},
     tests_names_regexp : {{}, {<<>>}, {<<"a">>}},
     skip_tags : {{}, {"t1"}},
     skip_names : {{}, {<<>>}, {<<"a">>}},
     skip_names_regexp : {{}, {<<>>}, {<<"a">>}}]

\* Lines 224, 228: config->getString("name", "")
getString_name(config) == IF config.has_name THEN config.name ELSE <<>>

\* Lines 232-233: std::regex_search(config_name, pattern) for a pattern
\* without metacharacters: the pattern occurs somewhere in the name
regex_search(config_name, name_regexp) ==
    \E i \in 0..(Len(config_name) - Len(name_regexp)) :
        SubSeq(config_name, i + 1, i + Len(name_regexp)) = name_regexp

\* Lines 201-244: the lambda `checker` of removeConfigurationsIf, true when
\* the configuration is to be removed
checker(config, filter_type, values, leave) ==
    IF values = {} THEN FALSE
    ELSE LET remove_or_not ==
                CASE filter_type = "Tag" -> config.tags \cap values # {}
                  [] filter_type = "Name" -> getString_name(config) \in values
                  [] filter_type = "Name_regexp" ->
                        IF config.has_name
                        THEN \E name_regexp \in values :
                                regex_search(getString_name(config), name_regexp)
                        ELSE FALSE
         IN IF leave THEN ~remove_or_not ELSE remove_or_not

\* Mutant: a pass that would remove every configuration removes none
removeConfigurationsIf_NeverAll(configs, filter_type, values, leave) ==
    LET Stays(config) == ~checker(config, filter_type, values, leave)
    IN IF SelectSeq(configs, Stays) = <<>>
       THEN configs
       ELSE SelectSeq(configs, Stays)

\* Lines 198-248: std::remove_if and erase keep the other configurations in
\* their order
removeConfigurationsIf(configs, filter_type, values, leave) ==
    LET Stays(config) == ~checker(config, filter_type, values, leave)
    IN SelectSeq(configs, Stays)

\* Lines 251-263: three passes that leave the matching tests, then three
\* passes that remove the matching tests
filterConfigurations ==
    /\ pc = "filter"
    /\ tests_configurations' =
          LET c1 == removeConfigurationsIf(tests_configurations, "Tag",
                                           filters.tests_tags, TRUE)
              c2 == removeConfigurationsIf(c1, "Name", filters.tests_names, TRUE)
              c3 == removeConfigurationsIf(c2, "Name_regexp",
                                           filters.tests_names_regexp, TRUE)
              c4 == removeConfigurationsIf(c3, "Tag", filters.skip_tags, FALSE)
              c5 == removeConfigurationsIf(c4, "Name", filters.skip_names, FALSE)
          IN removeConfigurationsIf(c5, "Name_regexp",
                                    filters.skip_names_regexp, FALSE)
    /\ pc' = "filtered"
    /\ UNCHANGED <<thrown_at, lite_output, clear_resets_result,
                   interrupt_requested, gotSIGINT, tests_done, test_config,
                   queries, exec_type, times_to_run, main_metric, metrics,
                   stop_conditions_by_run, statistics_by_run, number_of_launch,
                   query_index, iteration, stream, output, outputs, stdout,
                   invocations, finished, thrown, sigint_at_entry, executes,
                   messages, filters, query, substitutions_to_generate, stack,
                   queries_res, assignments, substituted, omitted, slots,
                   substitutions, calls, settings, profiles_file>>

\* processTestsConfigurations has loaded the configurations (lines 345-353)
\* and the constructor has stored the filter options
InitFilter ==
    /\ pc = "filter"
    /\ lite_output = FALSE
    /\ profiles_file = ""
    /\ tests_configurations \in
          UNION {[1..n -> FilteredConfigs] : n \in 0..MaxConfigs}
    /\ filters \in FilterOptions
    /\ NotFormatting
    /\ Constructed

NextFilter == filterConfigurations

SpecFilter == InitFilter /\ [][NextFilter]_vars

\* ------------------------------------------------------------------------
\* formatQueries and runThroughAllOptionsAndPush
\* ------------------------------------------------------------------------
\* Strings are sequences of characters; a substitution name is one
\* character.

\* Line 162: substitutions_maps is declared and read (lines 844-854,
\* 931-933) and never assigned
substitutions_maps == <<>>

\* Line 157: the iteration order of std::map<String, ...>, over the names tried
NameOrder == <<"a", "b">>

\* Line 762: "{" + substitutions_left->first + "}"
substitution_mask(name) == <<"{", name, "}">>

\* Lines 764, 778: String::find from position 0, 0 standing for npos
find(query_string, mask) ==
    LET found == {i \in 1..(Len(query_string) - Len(mask) + 1) :
                     SubSeq(query_string, i, i + Len(mask) - 1) = mask}
    IN IF found = {} THEN 0
       ELSE CHOOSE i \in found : \A j \in found : i <= j

\* Line 781: String::replace(pos, len, value)
replace(query_string, pos, len, value) ==
    SubSeq(query_string, 1, pos - 1) \o value
        \o SubSeq(query_string, pos + len, Len(query_string))

\* The keys of substitutions_to_generate in the order of the map
SubstitutionKeys ==
    LET Declared(name) == name \in DOMAIN substitutions_to_generate
    IN SelectSeq(NameOrder, Declared)

\* The i-th plain value: i times the letter y
RECURSIVE PlainValue(_)
PlainValue(i) == IF i = 0 THEN <<>> ELSE <<"y">> \o PlainValue(i - 1)

\* The plain value lists: 0..MaxValues distinct values without a brace
PlainValues == {[i \in 1..n |-> PlainValue(i)] : n \in 0..MaxValues}

\* Values with a meaning for the expansion: the token of the later
\* variable, the name of the later variable, a text with the own token, the
\* own token
SpecialValues ==
    {<<"{", "b", "}">>, <<"b">>, <<"x", "{", "a", "}">>, <<"{", "a", "}">>}

\* The value lists tried for the variable a: a plain list, or a plain list
\* with one of its values replaced by a special one
ValuesOfA ==
    PlainValues \cup
    {[values EXCEPT ![i] = special] :
        values \in PlainValues, i \in 1..MaxValues, special \in SpecialValues}

\* The substitution maps tried: each of a and b is declared or not
SubstitutionMaps ==
    {<<>>}
    \cup {[name \in {"a"} |-> values] : values \in ValuesOfA}
    \cup {[name \in {"b"} |-> values] : values \in PlainValues}
    \cup {[name \in {"a", "b"} |-> IF name = "a" THEN va ELSE vb] :
            va \in ValuesOfA, vb \in PlainValues}

\* The templates tried: up to MaxPieces pieces, each a letter or a token,
\* and one template with a token inside braces
RECURSIVE Concat(_)
Concat(pieces) ==
    IF pieces = <<>> THEN <<>> ELSE Head(pieces) \o Concat(Tail(pieces))

Templates ==
    {Concat(pieces) :
        pieces \in UNION {[1..n -> {<<"x">>, substitution_mask("a"),
                                     substitution_mask("b")}] :
                            n \in 0..MaxPieces}}
    \cup {<<"{", "{", "a", "}", "}">>}

\* Lines 751-754: the frame of a call of runThroughAllOptionsAndPush;
\* `chosen` records the value taken for each variable substituted so far
Call(left, template_query, chosen) ==
    [left |-> left, template_query |-> template_query, chosen |-> chosen,
     phase |-> "entry", value_index |-> 0, query |-> <<>>]

\* The call on top of the stack and the variable it looks at
Top == stack[Len(stack)]

NameOfTop == SubstitutionKeys[Top.left]

\* Lines 764, 770: the token occurs in the template of the call and the
\* loop over the values is entered or continued
InValueLoop ==
    \/ Top.phase = "loop"
    \/ /\ Top.phase = "entry"
       /\ Top.left <= Len(SubstitutionKeys)
       /\ find(Top.template_query, substitution_mask(NameOfTop)) # 0

\* A call returns: to its caller, or from formatQueries (line 746)
Return ==
    /\ stack' = SubSeq(stack, 1, Len(stack) - 1)
    /\ pc' = IF Len(stack) = 1 THEN "formatted" ELSE pc

\* Lines 756-760: no substitution is left, the query is complete
PushQuery ==
    /\ pc = "format"
    /\ Top.phase = "entry"
    /\ Top.left > Len(SubstitutionKeys)
    /\ queries_res' = Append(queries_res, Top.template_query)
    /\ assignments' = Append(assignments, Top.chosen)
    /\ Return
    /\ UNCHANGED <<thrown_at, lite_output, clear_resets_result,
                   interrupt_requested, gotSIGINT, tests_done, test_config,
                   queries, exec_type, times_to_run, main_metric, metrics,
                   stop_conditions_by_run, statistics_by_run, number_of_launch,
                   query_index, iteration, stream, output, outputs, stdout,
                   invocations, finished, thrown, sigint_at_entry, executes,
                   messages, tests_configurations, filters, query,
                   substitutions_to_generate, substituted, omitted, slots,
                   substitutions, calls, settings, profiles_file>>

\* Mutant: a variable without its token in the template leaves a copy of
\* the template in the result
NothingToSubstitute_Push ==
    /\ pc = "format"
    /\ Top.phase = "entry"
    /\ Top.left <= Len(SubstitutionKeys)
    /\ find(Top.template_query, substitution_mask(NameOfTop)) = 0
    /\ stack' = [stack EXCEPT ![Len(stack)] =
                    Call(Top.left + 1, Top.template_query, Top.chosen)]
    /\ queries_res' = Append(queries_res, Top.template_query)
    /\ assignments' = Append(assignments, Top.chosen)
    /\ UNCHANGED <<pc, thrown_at, lite_output, clear_resets_result,
                   interrupt_requested, gotSIGINT, tests_done, test_config,
                   queries, exec_type, times_to_run, main_metric, metrics,
                   stop_conditions_by_run, statistics_by_run, number_of_launch,
                   query_index, iteration, stream, output, outputs, stdout,
                   invocations, finished, thrown, sigint_at_entry, executes,
                   messages, tests_configurations, filters, query,
                   substitutions_to_generate, substituted, omitted, slots,
                   substitutions, calls, settings, profiles_file>>

\* Lines 764-768: the token does not occur in the template of the call; the
\* call hands the template to the next variable and returns what it returns
NothingToSubstitute ==
    /\ pc = "format"
    /\ Top.phase = "entry"
    /\ Top.left <= Len(SubstitutionKeys)
    /\ find(Top.template_query, substitution_mask(NameOfTop)) = 0
    /\ stack' = [stack EXCEPT ![Len(stack)] =
                    Call(Top.left + 1, Top.template_query, Top.chosen)]
    /\ UNCHANGED <<pc, thrown_at, lite_output, clear_resets_result,
                   interrupt_requested, gotSIGINT, tests_done, test_config,
                   queries, exec_type, times_to_run, main_metric, metrics,
                   stop_conditions_by_run, statistics_by_run, number_of_launch,
                   query_index, iteration, stream, output, outputs, stdout,
                   invocations, finished, thrown, sigint_at_entry, executes,
                   messages, tests_configurations, filters, query,
                   substitutions_to_generate, queries_res, assignments,
                   substituted, omitted, slots, substitutions, calls, settings,
                   profiles_file>>

\* Mutant: the loop over the values takes the last value only
NextValue_OnlyLast ==
    /\ pc = "format"
    /\ InValueLoop
    /\ Top.value_index < Len(substitutions_to_generate[NameOfTop])
    /\ stack' = [stack EXCEPT ![Len(stack)] =
                    [Top EXCEPT !.phase = "while",
                                !.value_index =
                                    Len(substitutions_to_generate[NameOfTop]),
                                !.query = Top.template_query]]
    /\ substituted' = substituted \cup {NameOfTop}
    /\ UNCHANGED <<pc, thrown_at, lite_output, clear_resets_result,
                   interrupt_requested, gotSIGINT, tests_done, test_config,
                   queries, exec_type, times_to_run, main_metric, metrics,
                   stop_conditions_by_run, statistics_by_run, number_of_launch,
                   query_index, iteration, stream, output, outputs, stdout,
                   invocations, finished, thrown, sigint_at_entry, executes,
                   messages, tests_configurations, filters, query,
                   substitutions_to_generate, queries_res, assignments,
                   omitted, slots, substitutions, calls, settings,
                   profiles_file>>

\* Lines 770-774: the next value of the variable, with a copy of the template
NextValue ==
    /\ pc = "format"
    /\ InValueLoop
    /\ Top.value_index < Len(substitutions_to_generate[NameOfTop])
    /\ stack' = [stack EXCEPT ![Len(stack)] =
                    [Top EXCEPT !.phase = "while",
                                !.value_index = Top.value_index + 1,
                                !.query = Top.template_query]]
    /\ substituted' = substituted \cup {NameOfTop}
    /\ UNCHANGED <<pc, thrown_at, lite_output, clear_resets_result,
                   interrupt_requested, gotSIGINT, tests_done, test_config,
                   queries, exec_type, times_to_run, main_metric, metrics,
                   stop_conditions_by_run, statistics_by_run, number_of_launch,
                   query_index, iteration, stream, output, outputs, stdout,
                   invocations, finished, thrown, sigint_at_entry, executes,
                   messages, tests_configurations, filters, query,
                   substitutions_to_generate, queries_res, assignments,
                   omitted, slots, substitutions, calls, settings,
                   profiles_file>>

\* Lines 776-782: one turn of the while loop that found the token
Replace ==
    LET mask == substitution_mask(NameOfTop)
        value == substitutions_to_generate[NameOfTop][Top.value_index]
        substr_pos == find(Top.query, mask)
        replaced == replace(Top.query, substr_pos, Len(mask), value)
    IN
    /\ pc = "format"
    /\ Top.phase = "while"
    /\ substr_pos # 0
    /\ Len(replaced) <= Len(query) + MaxGrowth
    /\ stack' = [stack EXCEPT ![Len(stack)] = [Top EXCEPT !.query = replaced]]
    /\ UNCHANGED <<pc, thrown_at, lite_output, clear_resets_result,
                   interrupt_requested, gotSIGINT, tests_done, test_config,
                   queries, exec_type, times_to_run, main_metric, metrics,
                   stop_conditions_by_run, statistics_by_run, number_of_launch,
                   query_index, iteration, stream, output, outputs, stdout,
                   invocations, finished, thrown, sigint_at_entry, executes,
                   messages, tests_configurations, filters, query,
                   substitutions_to_generate, queries_res, assignments,
                   substituted, omitted, slots, substitutions, calls, settings,
                   profiles_file>>

\* Lines 776-784: the while loop finds no token and ends; the call for the
\* next variable is made with the substituted query
Recurse ==
    LET name == NameOfTop
        value == substitutions_to_generate[name][Top.value_index]
        chosen == [n \in DOMAIN Top.chosen \cup {name} |->
                      IF n = name THEN value ELSE Top.chosen[n]]
    IN
    /\ pc = "format"
    /\ Top.phase = "while"
    /\ find(Top.query, substitution_mask(name)) = 0
    /\ stack' = Append([stack EXCEPT ![Len(stack)] =
                           [Top EXCEPT !.phase = "loop", !.query = <<>>]],
                       Call(Top.left + 1, Top.query, chosen))
    /\ UNCHANGED <<pc, thrown_at, lite_output, clear_resets_result,
                   interrupt_requested, gotSIGINT, tests_done, test_config,
                   queries, exec_type, times_to_run, main_metric, metrics,
                   stop_conditions_by_run, statistics_by_run, number_of_launch,
                   query_index, iteration, stream, output, outputs, stdout,
                   invocations, finished, thrown, sigint_at_entry, executes,
                   messages, tests_configurations, filters, query,
                   substitutions_to_generate, queries_res, assignments,
                   substituted, omitted, slots, substitutions, calls, settings,
                   profiles_file>>

\* Lines 770, 785: the loop over the values ends and the call returns
LoopEnd ==
    /\ pc = "format"
    /\ InValueLoop
    /\ Top.value_index = Len(substitutions_to_generate[NameOfTop])
    /\ substituted' = substituted \cup {NameOfTop}
    /\ Return
    /\ UNCHANGED <<thrown_at, lite_output, clear_resets_result,
                   interrupt_requested, gotSIGINT, tests_done, test_config,
                   queries, exec_type, times_to_run, main_metric, metrics,
                   stop_conditions_by_run, statistics_by_run, number_of_launch,
                   query_index, iteration, stream, output, outputs, stdout,
                   invocations, finished, thrown, sigint_at_entry, executes,
                   messages, tests_configurations, filters, query,
                   substitutions_to_generate, queries_res, assignments,
                   omitted, slots, substitutions, calls, settings,
                   profiles_file>>

\* Line 742: formatQueries is called again for the same query, with one
\* variable left out of the map; the first result is kept for comparison
Omit(name) ==
    /\ pc = "formatted"
    /\ omitted = <<>>
    /\ name \in DOMAIN substitutions_to_generate
    /\ omitted' = <<[name |-> name, queries_res |-> queries_res,
                     substituted |-> substituted]>>
    /\ substitutions_to_generate' =
          [n \in DOMAIN substitutions_to_generate \ {name} |->
              substitutions_to_generate[n]]
    /\ stack' = <<Call(1, query, <<>>)>>
    /\ queries_res' = <<>>
    /\ assignments' = <<>>
    /\ substituted' = {}
    /\ pc' = "format"
    /\ UNCHANGED <<thrown_at, lite_output, clear_resets_result,
                   interrupt_requested, gotSIGINT, tests_done, test_config,
                   queries, exec_type, times_to_run, main_metric, metrics,
                   stop_conditions_by_run, statistics_by_run, number_of_launch,
                   query_index, iteration, stream, output, outputs, stdout,
                   invocations, finished, thrown, sigint_at_entry, executes,
                   messages, tests_configurations, filters, query, slots,
                   substitutions, calls, settings, profiles_file>>

\* Lines 742-745: formatQueries has been called with a query and a map
InitFormat ==
    /\ pc = "format"
    /\ lite_output = FALSE
    /\ profiles_file = ""
    /\ tests_configurations = <<>>
    /\ filters = NoFilters
    /\ query \in Templates
    /\ substitutions_to_generate \in SubstitutionMaps
    /\ stack = <<Call(1, query, <<>>)>>
    /\ queries_res = <<>>
    /\ assignments = <<>>
    /\ substituted = {}
    /\ omitted = <<>>
    /\ Constructed

NextFormat ==
    \/ PushQuery
    \/ NothingToSubstitute
    \/ NextValue
    \/ Replace
    \/ Recurse
    \/ LoopEnd
    \/ \E name \in Range(NameOrder) : Omit(name)

SpecFormat == InitFormat /\ [][NextFormat]_vars

\* formatQueries runs on: every loop and every call of lines 742-786 takes
\* its next step
SpecFormatFair == SpecFormat /\ WF_vars(NextFormat)

\* ------------------------------------------------------------------------
\* constructSubstitutions: the value lists of the tests, one test after the
\* other
\* ------------------------------------------------------------------------

\* The names that the configurations give their tests (line 412)
TestNames == {"t1", "t2"}

\* The <substitutions> block of a configuration: <substitution> entries of
\* a name and a list of values each
Declarations ==
    UNION {[1..n -> [name : Range(NameOrder), values : PlainValues]] :
              n \in 0..MaxDeclarations}

\* The configurations tried: with a <substitutions> block, or without
SubstitutionConfigs ==
    [name : TestNames, has_substitutions : {TRUE}, substitutions : Declarations]
    \cup [name : TestNames, has_substitutions : {FALSE}, substitutions : {<<>>}]

\* std::map::operator[] as lines 513, 520 and 737 use it to read: the value
\* of the key, or the empty value that the operator inserts for a new key
At(map, key) == IF key \in DOMAIN map THEN map[key] ELSE <<>>

\* std::map::operator[] as lines 513 and 737 use it to write
Put(map, key, value) ==
    [k \in DOMAIN map \cup {key} |-> IF k = key THEN value ELSE map[k]]

\* Lines 719-740: every value of every entry is pushed to the back of the
\* list that out_substitutions holds for the name of the entry
RECURSIVE constructSubstitutions(_, _)
constructSubstitutions(xml_substitutions, out_substitutions) ==
    IF xml_substitutions = <<>> THEN out_substitutions
    ELSE LET xml_substitution == Head(xml_substitutions)
             name == xml_substitution.name
         IN constructSubstitutions(
                Tail(xml_substitutions),
                IF xml_substitution.values = <<>>
                THEN out_substitutions
                ELSE Put(out_substitutions, name,
                         At(out_substitutions, name) \o xml_substitution.values))

\* Lines 412 and 509-522: runTest reads the name of the test, fills
\* substitutions[test_name] from the <substitutions> block, if there is
\* one, and hands it to formatQueries
ExpandTest(cfg) ==
    LET out_substitutions ==
            constructSubstitutions(cfg.substitutions,
                                   At(substitutions, cfg.name))
    IN
    /\ pc = "main"
    /\ tests_done < MaxTests
    /\ test_config' = cfg
    /\ IF cfg.has_substitutions
       THEN /\ substitutions' = Put(substitutions, cfg.name, out_substitutions)
            /\ substitutions_to_generate' = out_substitutions
       ELSE UNCHANGED <<substitutions, substitutions_to_generate>>
    /\ pc' = "expand"
    /\ UNCHANGED <<thrown_at, lite_output, clear_resets_result,
                   interrupt_requested, gotSIGINT, tests_done, queries,
                   exec_type, times_to_run, main_metric, metrics,
                   stop_conditions_by_run, statistics_by_run, number_of_launch,
                   query_index, iteration, stream, output, outputs, stdout,
                   invocations, finished, thrown, sigint_at_entry, executes,
                   messages, tests_configurations, filters, query, stack,
                   queries_res, assignments, substituted, omitted, slots,
                   calls, settings, profiles_file>>

\* Lines 367-371: runTest has returned and the next test is looked at
TestExpanded ==
    /\ pc = "expand"
    /\ tests_done' = tests_done + 1
    /\ test_config' = NoConfig
    /\ substitutions_to_generate' = <<>>
    /\ pc' = "main"
    /\ UNCHANGED <<thrown_at, lite_output, clear_resets_result,
                   interrupt_requested, gotSIGINT, queries, exec_type,
                   times_to_run, main_metric, metrics, stop_conditions_by_run,
                   statistics_by_run, number_of_launch, query_index, iteration,
                   stream, output, outputs, stdout, invocations, finished,
                   thrown, sigint_at_entry, executes, messages,
                   tests_configurations, filters, query, stack, queries_res,
                   assignments, substituted, omitted, slots, substitutions,
                   calls, settings, profiles_file>>

InitSubstitutions ==
    /\ pc = "main"
    /\ lite_output = FALSE
    /\ profiles_file = ""
    /\ tests_configurations = <<>>
    /\ filters = NoFilters
    /\ NotFormatting
    /\ Constructed

NextSubstitutions ==
    \/ \E cfg \in SubstitutionConfigs : ExpandTest(cfg)
    \/ TestExpanded

SpecSubstitutions == InitSubstitutions /\ [][NextSubstitutions]_vars

\* ------------------------------------------------------------------------
\* Properties
\* ------------------------------------------------------------------------

\* The run slots of the current test
Slots == 0..(times_to_run * Len(queries) - 1)

\* The slots that have a record or a line in the report of the current test
ReportedSlots == {output[i].slot : i \in DOMAIN output}

\* A step that starts an invocation (execute) of the query of some slot
InvocationStarted ==
    \E s \in DOMAIN invocations \cap DOMAIN invocations' :
        invocations'[s] > invocations[s]

\* C1: once gotSIGINT is true, no further query invocation (execute) is
\* started; the orchestrator goes directly to building the report.
C1_NoInvocationAfterInterrupt ==
    [][gotSIGINT => ~InvocationStarted]_vars

\* C2: gotSIGINT is never set back to false, and a test that runTest enters
\* with gotSIGINT set starts no query invocation.
C2_InterruptSticky ==
    [][/\ gotSIGINT => gotSIGINT'
       /\ sigint_at_entry => ~InvocationStarted]_vars

\* C2 witness: a test with at least one slot was entered with the flag set
\* and has been run up to its report.
C2_Witness ==
    /\ pc = "returned"
    /\ sigint_at_entry
    /\ Slots # {}
    /\ executes > 0

\* C3: the structured report of a test holds a record for a slot only if the
\* slot was invoked in this test and finished while gotSIGINT was unset.
C3_ReportOnlyOwnReadySlots ==
    (pc = "returned" /\ ~lite_output) => ReportedSlots \subseteq finished

\* C4: the lite output of a test holds a line only for the slots that were
\* invoked and completed.
C4_LiteOnlyCompletedSlots ==
    (pc = "returned" /\ lite_output) => ReportedSlots \subseteq finished

\* C5: when a slot failed with a backend exception and no interrupt was
\* observed, every slot of the test has been invoked, is marked ready and
\* appears in the report.
C5_FailureDoesNotAbortSiblings ==
    (pc = "returned" /\ ~gotSIGINT /\ thrown # {}) =>
        \A s \in Slots :
            /\ invocations[s + 1] >= 1
            /\ statistics_by_run[s + 1].ready
            /\ s \in ReportedSlots

\* C5 witness: the first slot of a test of two queries run twice failed and
\* the test reached its report without an interrupt.
C5_Witness ==
    /\ pc = "returned"
    /\ ~gotSIGINT
    /\ 0 \in thrown
    /\ Len(queries) = 2
    /\ times_to_run = 2
    /\ Len(output) = 4

\* C6 (as claimed): the record of a slot that failed with a backend
\* exception carries the exception text and no metric values.
C6_ExceptionRecordHasNoMetrics ==
    (pc = "returned" /\ ~lite_output) =>
        \A i \in DOMAIN output :
            output[i].slot \in thrown =>
                output[i].exception # "" /\ output[i].metrics = {}

\* C6 (amended): the record of a slot that failed with a backend exception
\* carries the exception text together with every requested metric of the
\* execution type, as the record of any other slot does.
C6_ExceptionRecordKeepsMetrics ==
    (pc = "returned" /\ ~lite_output) =>
        \A i \in DOMAIN output :
            output[i].slot \in thrown =>
                /\ output[i].exception # ""
                /\ output[i].metrics = ReportedMetrics(exec_type, metrics)

\* C6 witness: a report holds the record of a failed slot, with a metric.
C6_Witness ==
    /\ pc = "returned"
    /\ ~lite_output
    /\ \E i \in DOMAIN output :
          /\ output[i].slot \in thrown
          /\ output[i].exception # ""
          /\ output[i].metrics # {}

\* C7: once an invocation of a slot's query has failed with an exception,
\* no further invocation of that slot's query is started.
C7_NoRetryAfterFailure ==
    [][\A s \in thrown :
          (s + 1) \in DOMAIN invocations' =>
              invocations'[s + 1] <= invocations[s + 1]]_vars

\* C7 witness: a slot of a loop test failed before its stop conditions were
\* fulfilled, and runQueries has moved on.
C7_Witness ==
    /\ exec_type = "loop"
    /\ pc = "returned"
    /\ \E s \in thrown : ~areFulfilled(stop_conditions_by_run[s + 1])

\* C8: in once mode no slot has its query invoked twice, and every slot that
\* runQueries has been through has its query invoked exactly once.
C8_OnceInvokedOnce ==
    exec_type = "once" =>
        \A s \in DOMAIN invocations :
            /\ invocations[s] <= 1
            /\ (s - 1) \in finished \cup thrown => invocations[s] = 1

\* C8 witness: a slot of a once test completed with its stop conditions
\* not fulfilled.
C8_Witness ==
    /\ exec_type = "once"
    /\ \E s \in finished :
          /\ invocations[s + 1] = 1
          /\ ~areFulfilled(stop_conditions_by_run[s + 1])

\* C9: a second or later invocation of a slot's query is started only in
\* loop mode, with gotSIGINT unset and areFulfilled() false after
\* reportIterations(k), k being the invocations already made; a slot with
\* only an iterations >= N condition that ends with no failure and no
\* interrupt has had its query invoked exactly N times.
C9_LoopInvocations ==
    /\ [][\A s \in DOMAIN invocations \cap DOMAIN invocations' :
             (invocations[s] >= 1 /\ invocations'[s] > invocations[s]) =>
                 /\ exec_type = "loop"
                 /\ ~gotSIGINT
                 /\ invocations'[s] = invocations[s] + 1
                 /\ stop_conditions_by_run'[s].iterations = invocations[s]
                 /\ ~areFulfilled(stop_conditions_by_run'[s])]_vars
    /\ [](\A s \in finished \ thrown :
             (/\ exec_type = "loop"
              /\ stop_conditions_by_run[s + 1].rows_read_limit = 0) =>
                 invocations[s + 1] = stop_conditions_by_run[s + 1].iterations_limit)

\* C9 witness: a loop slot with only iterations >= 2 has ended after two
\* invocations.
C9_Witness ==
    /\ exec_type = "loop"
    /\ \E s \in finished \ thrown :
          /\ stop_conditions_by_run[s + 1].rows_read_limit = 0
          /\ stop_conditions_by_run[s + 1].iterations_limit = 2
          /\ invocations[s + 1] = 2

\* A metric of the other execution type is requested, in metrics or as
\* main_metric
HasForeignMetric(cfg) ==
    /\ cfg.type \in {"loop", "once"}
    /\ \E m \in Range(cfg.metrics) \cup ({cfg.main_metric} \ {""}) :
          IF cfg.type = "loop" THEN Contains(non_loop_metrics, m)
          ELSE Contains(loop_metrics, m)

\* C10: a test that requests a metric of the other execution type makes
\* runTest throw, and no query of the test is invoked.
C10_ForeignMetricRejected ==
    HasForeignMetric(test_config) =>
        /\ pc = "failed"
        /\ thrown_at # 0
        /\ \A s \in DOMAIN invocations : invocations[s] = 0

\* C10 witness: checkMetricsInput has thrown for a once test (loop metric)
\* or for a loop test (non-loop metric) given as main_metric.
C10_Witness ==
    /\ HasForeignMetric(test_config)
    /\ pc = "failed"
    /\ thrown_at \in {624, 630}
    /\ test_config.metrics = <<>>

\* C11: when the process ends with a configuration error (missing or
\* ambiguous query source, empty stop-condition set, metric of the other
\* execution type), no query has been sent to the backend for any test,
\* the tests processed before the faulty one included.
C11_ConfigErrorBeforeBackend ==
    (pc = "failed" /\ thrown_at \in {464, 469, 548, 624, 630}) => executes = 0

\* C12: a test whose stop-condition set configures no predicate makes
\* runTest throw; no stop-condition instance has been pushed for a slot of
\* the test and no query of the test is or will be invoked.
C12_EmptyStopConditionsRejected ==
    (/\ test_config # NoConfig
     /\ StopConditionsEmpty(StopConditionsTemplate(test_config))) =>
        /\ pc = "failed"
        /\ thrown_at # 0
        /\ stop_conditions_by_run = <<>>
        /\ \A s \in DOMAIN invocations : invocations[s] = 0

\* C12 witness: runTest has thrown at line 548 for a test of one slot with
\* no stop condition, after an earlier test had run.
C12_Witness ==
    /\ pc = "failed"
    /\ thrown_at = 548
    /\ test_config.nq * test_config.times_to_run = 1
    /\ StopConditionsEmpty(StopConditionsTemplate(test_config))
    /\ executes > 0

\* C13: a failed precondition is not fatal.  The step that passes over a
\* test in the loop of processTestsConfigurations (the test counter moves
\* while the thread stays in the loop) invokes no query, reports nothing,
\* records nothing, and leaves the loop ready for the next test.
C13_SkipIsNonFatal ==
    [][(pc = "main" /\ tests_done' # tests_done) =>
          /\ pc' = "main"
          /\ thrown_at' = 0
          /\ tests_done' = tests_done + 1
          /\ executes' = executes
          /\ invocations' = invocations
          /\ statistics_by_run' = statistics_by_run
          /\ stdout' = stdout
          /\ outputs' = outputs]_vars

\* C13 witness: the first test was skipped (nothing is reported for it) and
\* the second test has been run
C13_Witness ==
    /\ pc = "returned"
    /\ tests_done = 1
    /\ stdout = <<>>
    /\ outputs = <<>>
    /\ executes > 0

\* C14: while a test of q resolved queries and times_to_run = r is executed
\* and reported, stop_conditions_by_run and statistics_by_run both hold
\* exactly q*r entries, one per run slot; when runTest returns and no
\* interrupt was observed, every one of the q*r slots has been invoked and
\* the report holds exactly q*r run records, one per slot.
C14_OneInstancePerSlot ==
    pc \in {"launch", "query", "stream", "iteration", "output", "returned"} =>
        LET n == test_config.nq * test_config.times_to_run IN
        /\ Len(queries) = test_config.nq
        /\ times_to_run = test_config.times_to_run
        /\ Len(stop_conditions_by_run) = n
        /\ Len(statistics_by_run) = n
        /\ (pc = "returned" /\ ~gotSIGINT) =>
              /\ \A s \in 1..n : invocations[s] >= 1
              /\ Len(output) = n
              /\ ReportedSlots = Slots

\* C14 witness: a test of two queries run twice has returned without an
\* interrupt and its report holds four run records
C14_Witness ==
    /\ pc = "returned"
    /\ ~gotSIGINT
    /\ Len(queries) = 2
    /\ times_to_run = 2
    /\ Len(output) = 4

\* C17: filterConfigurations keeps exactly the tests, in their original
\* order, that match every non-empty include list (tags, names, name
\* regexps) and match no exclude list; an empty list removes nothing.  A
\* test matches a tag list iff one of its tags is in the list, a name list
\* iff it has a name that is in the list, a regexp list iff it has a name
\* that one of the patterns matches.
C17_KeepsExactlySelected ==
    [][LET MatchesTags(config, values) == \E tag \in config.tags : tag \in values
           MatchesNames(config, values) ==
               config.has_name /\ config.name \in values
           MatchesRegexps(config, values) ==
               /\ config.has_name
               /\ \E pattern \in values, i \in 1..(Len(config.name) + 1),
                     j \in 0..Len(config.name) :
                       SubSeq(config.name, i, j) = pattern
           Selected(config) ==
               /\ filters.tests_tags # {} =>
                     MatchesTags(config, filters.tests_tags)
               /\ filters.tests_names # {} =>
                     MatchesNames(config, filters.tests_names)
               /\ filters.tests_names_regexp # {} =>
                     MatchesRegexps(config, filters.tests_names_regexp)
               /\ ~MatchesTags(config, filters.skip_tags)
               /\ ~MatchesNames(config, filters.skip_names)
               /\ ~MatchesRegexps(config, filters.skip_names_regexp)
       IN (pc = "filter" /\ pc' = "filtered") =>
             tests_configurations' =
                 SelectSeq(tests_configurations, Selected)]_vars

\* C18: a test without a name field matches no name list and no name
\* regexp list: filterConfigurations removes it when --names or
\* --names-regexp is given, and --skip-names and --skip-names-regexp never
\* remove it (it stays whenever the tag lists let it stay).
C18_NamelessNeverMatches ==
    [][(pc = "filter" /\ pc' = "filtered") =>
          \A i \in DOMAIN tests_configurations :
              LET config == tests_configurations[i] IN
              ~config.has_name =>
                  /\ (filters.tests_names # {} \/ filters.tests_names_regexp # {})
                        => ~Contains(tests_configurations', config)
                  /\ (/\ filters.tests_names = {}
                      /\ filters.tests_names_regexp = {}
                      /\ filters.tests_tags # {} =>
                            config.tags \cap filters.tests_tags # {}
                      /\ config.tags \cap filters.skip_tags = {})
                        => Contains(tests_configurations', config)]_vars

\* C15 (as claimed): whenever formatQueries returns, the number of queries
\* equals the product of the lengths of the value lists of exactly the
\* variables whose token occurs in the original template, whatever the
\* value strings contain.
C15_CountByOriginalTemplate ==
    (pc = "formatted" /\ omitted = <<>>) =>
        LET InOriginal(name) == find(query, substitution_mask(name)) # 0
            counted == SelectSeq(SubstitutionKeys, InOriginal)
            Product[i \in 0..Len(counted)] ==
                IF i = 0 THEN 1
                ELSE Len(substitutions_to_generate[counted[i]]) * Product[i - 1]
        IN Len(queries_res) = Product[Len(counted)]

\* C15 (amended): whenever formatQueries returns and every query it produced
\* went through the same substituted variables (the variables whose token
\* occurs in the template current when the variable is reached), the number
\* of queries equals the product of the lengths of the value lists of
\* exactly those variables.  When no value contains a brace and the braces
\* of the original template are not nested, the number of queries equals
\* the product of the lengths of the value lists of exactly the variables
\* whose token occurs in the original template.
C15_CountByCurrentTemplate ==
    (pc = "formatted" /\ omitted = <<>>) =>
        LET ProductOver(names) ==
                LET keys == SelectSeq(SubstitutionKeys,
                                      LAMBDA name : name \in names)
                    Product[i \in 0..Len(keys)] ==
                        IF i = 0 THEN 1
                        ELSE Len(substitutions_to_generate[keys[i]])
                                 * Product[i - 1]
                IN Product[Len(keys)]
            Brace(c) == c \in {"{", "}"}
            NoBrace(s) == \A i \in DOMAIN s : ~Brace(s[i])
            Flat(s) ==
                \A i \in DOMAIN s :
                    /\ s[i] = "{" =>
                          \E j \in (i + 1)..Len(s) :
                              /\ s[j] = "}"
                              /\ \A k \in (i + 1)..(j - 1) : ~Brace(s[k])
                    /\ s[i] = "}" =>
                          \E j \in 1..(i - 1) :
                              /\ s[j] = "{"
                              /\ \A k \in (j + 1)..(i - 1) : ~Brace(s[k])
        IN /\ (\A i \in DOMAIN assignments : DOMAIN assignments[i] = substituted)
                => Len(queries_res) = ProductOver(substituted)
           /\ (/\ Flat(query)
               /\ \A name \in DOMAIN substitutions_to_generate :
                     \A i \in DOMAIN substitutions_to_generate[name] :
                         NoBrace(substitutions_to_generate[name][i]))
                => Len(queries_res) =
                      ProductOver({name \in DOMAIN substitutions_to_generate :
                                      find(query, substitution_mask(name)) # 0})

\* C15 witness: a template with the tokens of two variables of two values
\* each has been expanded to four queries
C15_Witness ==
    /\ pc = "formatted"
    /\ omitted = <<>>
    /\ substituted = {"a", "b"}
    /\ \A i \in DOMAIN assignments : DOMAIN assignments[i] = substituted
    /\ Len(queries_res) = 4

\* C16 (as claimed): a variable whose token does not occur in the original
\* template can be left out of the map without changing the list of queries
\* that formatQueries returns.
C16_UnusedByOriginalTemplate ==
    (/\ pc = "formatted"
     /\ omitted # <<>>
     /\ find(query, substitution_mask(omitted[1].name)) = 0) =>
        queries_res = omitted[1].queries_res

\* C16 (amended): a variable that is never substituted, its token occurring
\* in no template current when the variable is reached, can be left out of
\* the map without changing the list of queries that formatQueries returns.
C16_UnusedByCurrentTemplate ==
    (/\ pc = "formatted"
     /\ omitted # <<>>
     /\ omitted[1].name \notin omitted[1].substituted) =>
        queries_res = omitted[1].queries_res

\* C16 witness: a variable of two values that was never substituted has been
\* left out, next to a variable that has produced two queries
C16_Witness ==
    /\ pc = "formatted"
    /\ omitted # <<>>
    /\ omitted[1].name \notin omitted[1].substituted
    /\ Len(omitted[1].queries_res) = 2
    /\ Len(queries_res) = 2
    /\ substituted # {}

\* C20: every query produced by the expansion is stored together with the
\* values chosen for its substituted variables: substitutions_maps, which
\* the run records read their parameters from, holds one assignment per
\* query of the result.
C20_QueriesPairedWithValues ==
    pc = "formatted" =>
        \A i \in DOMAIN queries_res :
            DOMAIN assignments[i] # {} =>
                /\ i \in DOMAIN substitutions_maps
                /\ substitutions_maps[i] = assignments[i]

\* C19: after an interrupt the partial report is still emitted.  Once the
\* interrupt has been observed and runTest has returned, every report that
\* waits to be written stays waiting or is written to the output, whatever
\* the tests processed after it do.
C19_PartialReportEmitted ==
    [][(gotSIGINT /\ pc = "main" /\ ~lite_output) =>
          \A report \in Range(outputs) :
              report \in Range(outputs') \cup Range(stdout')]_vars

C22_InterruptSeenAtBoundary ==
    [][(pc = "iteration" /\ interrupt_requested) =>
          invocations' = invocations]_vars

C25_UpdateQueryInfoOnNaturalEnd ==
    [][/\ (pc = "stream" /\ pc' # "stream") =>
             statistics_by_run'[run_index + 1].queries =
                IF messages' = messages /\ ~stream.cancelled
                THEN statistics_by_run[run_index + 1].queries + 1
                ELSE statistics_by_run[run_index + 1].queries
       /\ (pc = "stream" /\ pc' = "stream") =>
             statistics_by_run'[run_index + 1].queries =
                statistics_by_run[run_index + 1].queries
       /\ (pc = "iteration") =>
             statistics_by_run'[run_index + 1].queries =
                statistics_by_run[run_index + 1].queries
       /\ (pc # "stream" /\ pc' = "stream") =>
             /\ ~stream'.cancelled
             /\ ~statistics_by_run'[run_index + 1].last_query_was_cancelled
             /\ pc = "query" => statistics_by_run'[run_index + 1].queries = 0]_vars

\* A slot in loop mode ran its query twice: the first execute() ended by
\* itself and was counted, the second was cancelled and was not
C25_Witness ==
    \E s \in finished :
        /\ invocations[s + 1] = 2
        /\ statistics_by_run[s + 1].queries = 1
        /\ statistics_by_run[s + 1].last_query_was_cancelled
        /\ s \notin thrown

\* ------------------------------------------------------------------------
\* C26: the stop conditions of a slot are reset once, and its statistics
\* cleared once, both before its first execute(); between the iterations
\* of the slot neither call is made, and what the stop conditions and the
\* statistics have accumulated carries over.
\* ------------------------------------------------------------------------
C26_ResetOncePerSlot ==
    [][/\ \A i \in DOMAIN calls' :
             /\ calls'[i].reset <= 1
             /\ calls'[i].clear <= 1
             /\ invocations'[i] >= 1 =>
                   (calls'[i].reset = 1 /\ calls'[i].clear = 1)
       /\ (pc = "query" /\ pc' = "stream") =>
             /\ calls[run_index + 1].reset = 1
             /\ invocations[run_index + 1] = 0
             /\ stop_conditions_by_run[run_index + 1] =
                   StopConditionsReset(stop_conditions_by_run[run_index + 1])
       /\ (pc \in {"stream", "iteration"}) =>
             LET sc == stop_conditions_by_run[run_index + 1]
                 sc1 == stop_conditions_by_run'[run_index + 1]
                 st == statistics_by_run[run_index + 1]
                 st1 == statistics_by_run'[run_index + 1]
             IN /\ calls' = calls
                /\ sc1.iterations >= sc.iterations
                /\ sc1.rows_read >= sc.rows_read
                /\ sc.fulfilled \subseteq sc1.fulfilled
                /\ st1.total_rows_read >= st.total_rows_read
                /\ st1.queries >= st.queries]_vars

\* A slot in loop mode ran its query twice after one reset and one clear,
\* and its stop conditions hold the second iteration
C26_Witness ==
    \E s \in finished :
        /\ invocations[s + 1] = 2
        /\ calls[s + 1].reset = 1
        /\ calls[s + 1].clear = 1
        /\ stop_conditions_by_run[s + 1].iterations = 2
        /\ statistics_by_run[s + 1].queries = 2

\* C27 (as claimed): the order of the passes matters: there are a list of
\* tests and filter options for which the passes that remove the matching
\* tests, run before the passes that leave the matching tests, keep a test
\* that the order of filterConfigurations drops.
C27_OrderMatters ==
    pc = "filter" =>
    \E configs \in UNION {[1..n -> FilteredConfigs] : n \in 0..MaxConfigs},
       options \in FilterOptions :
        LET Leave(cs) ==
                removeConfigurationsIf(
                    removeConfigurationsIf(
                        removeConfigurationsIf(cs, "Tag", options.tests_tags, TRUE),
                        "Name", options.tests_names, TRUE),
                    "Name_regexp", options.tests_names_regexp, TRUE)
            Skip(cs) ==
                removeConfigurationsIf(
                    removeConfigurationsIf(
                        removeConfigurationsIf(cs, "Tag", options.skip_tags, FALSE),
                        "Name", options.skip_names, FALSE),
                    "Name_regexp", options.skip_names_regexp, FALSE)
        IN \E config \in Range(Leave(Skip(configs))) :
              config \notin Range(Skip(Leave(configs)))

\* C27 (amended): the order of the passes does not matter: the passes that
\* remove the matching tests, run before the passes that leave the matching
\* tests, give the list of tests that filterConfigurations gives.
C27_OrderDoesNotMatter ==
    [][(pc = "filter" /\ pc' = "filtered") =>
          LET Leave(cs) ==
                  removeConfigurationsIf(
                      removeConfigurationsIf(
                          removeConfigurationsIf(cs, "Tag", filters.tests_tags, TRUE),
                          "Name", filters.tests_names, TRUE),
                      "Name_regexp", filters.tests_names_regexp, TRUE)
              Skip(cs) ==
                  removeConfigurationsIf(
                      removeConfigurationsIf(
                          removeConfigurationsIf(cs, "Tag", filters.skip_tags, FALSE),
                          "Name", filters.skip_names, FALSE),
                      "Name_regexp", filters.skip_names_regexp, FALSE)
          IN tests_configurations' = Leave(Skip(tests_configurations))]_vars

\* C27 witness: with a tag to leave and a name to skip, filterConfigurations
\* has kept one test, which has the tag and not the name
C27_Witness ==
    /\ pc = "filtered"
    /\ filters.tests_tags = {"t1"}
    /\ filters.skip_names = {<<"a">>}
    /\ Len(tests_configurations) = 1
    /\ "t1" \in tests_configurations[1].tags
    /\ tests_configurations[1].name # <<"a">>

\* ------------------------------------------------------------------------
\* C28: number_of_launch * |queries| + query_index maps the (launch, query)
\* pairs one to one onto the slots 0 .. times_to_run * |queries| - 1 (the
\* queries and times_to_run of a test never change, so that the launch loop
\* is the place to look).  The slots are executed in the order of their
\* index, which is launch by launch: while slot s runs, the slots up to s
\* and no others have been executed, and s runs query s % |queries| in
\* launch s / |queries|.  The report goes query
\* by query, and its record (or lite line) of a query and a launch reads
\* the slot in which that query was executed in that launch.
\* ------------------------------------------------------------------------
C28_SlotIndexBijection ==
    LET n == Len(queries) * times_to_run
        nq == Len(queries)
    IN
    /\ (pc = "launch") =>
          /\ {StatisticIndex(ReportOrder[p]) : p \in 1..n} = 0..(n - 1)
          /\ \A p1, p2 \in 1..n :
                StatisticIndex(ReportOrder[p1]) = StatisticIndex(ReportOrder[p2])
                    => p1 = p2
    /\ (pc \in {"stream", "iteration"}) =>
          /\ run_index \div nq = number_of_launch
          /\ calls[run_index + 1].query = queries[(run_index % nq) + 1]
          /\ \A s \in DOMAIN invocations :
                invocations[s] >= 1 <=> s - 1 <= run_index
    /\ (pc = "returned") =>
          /\ \A i, j \in DOMAIN output :
                i < j =>
                    \/ output[i].slot % nq < output[j].slot % nq
                    \/ /\ output[i].slot % nq = output[j].slot % nq
                       /\ output[i].slot \div nq < output[j].slot \div nq
          /\ \A i \in DOMAIN output :
                /\ output[i].slot \in 0..(n - 1)
                /\ output[i].query = queries[(output[i].slot % nq) + 1]
                /\ invocations[output[i].slot + 1] >= 1 =>
                      calls[output[i].slot + 1].query = output[i].query
                /\ lite_output =>
                      output[i].run = (output[i].slot \div nq) + 1

\* The report of a test with two queries and two launches holds its four
\* slots, all executed
C28_Witness ==
    /\ pc = "returned"
    /\ Len(queries) = 2
    /\ times_to_run = 2
    /\ Len(output) = 4
    /\ \A s \in DOMAIN invocations : invocations[s] >= 1

\* ------------------------------------------------------------------------
\* C29: formatQueries terminates for every template and every finite map of
\* substitutions, a map with a value that contains the token of its own
\* variable included.  A turn of the while loop that replaces the token by
\* itself changes no variable: the run that repeats it for ever is the run
\* that stays in that state.
\* ------------------------------------------------------------------------
C29_FormatQueriesTerminates == <>(pc = "formatted")

\* ------------------------------------------------------------------------
\* C30: the value lists handed to formatQueries for a test are the lists
\* that the <substitutions> block of that test declares: every list is the
\* list of values of an entry of that name in the block, with nothing from a
\* test of the same name that ran before and nothing from a second entry of
\* the same name, and every entry that has values has its list.
\* ------------------------------------------------------------------------
C30_OnlyDeclaredLists ==
    (pc = "expand" /\ test_config.has_substitutions) =>
        LET declared == test_config.substitutions IN
        /\ \A name \in DOMAIN substitutions_to_generate :
              \E i \in DOMAIN declared :
                  /\ declared[i].name = name
                  /\ declared[i].values = substitutions_to_generate[name]
        /\ \A i \in DOMAIN declared :
              declared[i].values # <<>> =>
                  declared[i].name \in DOMAIN substitutions_to_generate

\* ------------------------------------------------------------------------
\* Settings of the backend: the <settings> block of a test (runTest, lines
\* 415-449) and the settings that the stream of a query is created with
\* (execute, line 677)
\* ------------------------------------------------------------------------

\* Values of a key of a <settings> block or of a profile; "" is an element
\* without text
SettingValues == {"", "1"}

\* Keys of a <settings> block besides profile: the names of the table of
\* Settings and a name the table does not hold
SettingNames == KnownSettings \cup {"no_such_setting"}

\* Values of the option --profiles-file: not given, or the path of a file
ProfilesFiles == {"", "profiles.xml"}

\* Line 427: the profiles that the file of the option holds, per profile its
\* keys and their values
Profiles == [web |-> [max_threads |-> "8", max_memory_usage |-> ""]]

\* Values of settings.profile: a profile of the file, and one it lacks
ProfileNames == {"web", "batch"}

\* Lines 417-419: the <settings> blocks, the keys of a block with their values
SettingsBlocks ==
    {block \in UNION {[keys -> SettingValues \cup ProfileNames] :
                         keys \in SUBSET (SettingNames \cup {"profile"})} :
        \A key \in DOMAIN block :
            (key = "profile") <=> (block[key] \in ProfileNames)}

\* Configurations of a test as far as lines 415-449 read them
SettingsConfigs ==
    [name : {"t1"}, has_settings : {TRUE}, settings : SettingsBlocks]
        \cup [name : {"t1"}, has_settings : {FALSE}, settings : {<<>>}]

\* Lines 392-406: every key of settings_list but profile is put into
\* settings_to_apply with the value of the configuration, "true" for a key
\* without text
extractSettings(config, settings_list, settings_to_apply) ==
    LET extracted == settings_list \ {"profile"}
    IN [setup \in DOMAIN settings_to_apply \cup extracted |->
           IF setup \in extracted
           THEN IF config[setup] = "" THEN "true" ELSE config[setup]
           ELSE settings_to_apply[setup]]

\* Lines 442-449, EXTRACT_SETTING over APPLY_FOR_SETTINGS: a name of the
\* table found in settings_to_apply is set, every other name stays as it is
applySettings(current, settings_to_apply) ==
    [name \in KnownSettings |->
        IF name \in DOMAIN settings_to_apply
        THEN settings_to_apply[name]
        ELSE current[name]]

\* Lines 415-449: runTest reads the <settings> block of the test: the keys of
\* the profile first (only with a profiles file, line 424), the keys of the
\* block over them (line 436), and sets them in the member settings
SetUpTest(cfg) ==
    LET config_settings == DOMAIN cfg.settings
        profile ==
            IF "profile" \in config_settings /\ profiles_file # ""
            THEN At(Profiles, cfg.settings["profile"])
            ELSE <<>>
        from_profile == extractSettings(profile, DOMAIN profile, <<>>)
        settings_to_apply ==
            extractSettings(cfg.settings, config_settings, from_profile)
    IN
    /\ pc = "main"
    /\ tests_done < MaxTests
    /\ test_config' = cfg
    /\ IF cfg.has_settings
       THEN settings' = applySettings(settings, settings_to_apply)
       ELSE UNCHANGED settings
    /\ pc' = "execute"
    /\ UNCHANGED <<thrown_at, lite_output, clear_resets_result,
                   interrupt_requested, gotSIGINT, tests_done, queries,
                   exec_type, times_to_run, main_metric, metrics,
                   stop_conditions_by_run, statistics_by_run, number_of_launch,
                   query_index, iteration, stream, output, outputs, stdout,
                   invocations, finished, thrown, sigint_at_entry, executes,
                   messages, tests_configurations, filters, query,
                   substitutions_to_generate, stack, queries_res, assignments,
                   substituted, omitted, slots, substitutions, calls,
                   profiles_file>>

\* Line 677 and lines 367-371: the stream of a query of the test is created
\* with the member settings, the queries run, and runTest returns
TestExecuted ==
    /\ pc = "execute"
    /\ tests_done' = tests_done + 1
    /\ test_config' = NoConfig
    /\ pc' = "main"
    /\ UNCHANGED <<thrown_at, lite_output, clear_resets_result,
                   interrupt_requested, gotSIGINT, queries, exec_type,
                   times_to_run, main_metric, metrics, stop_conditions_by_run,
                   statistics_by_run, number_of_launch, query_index, iteration,
                   stream, output, outputs, stdout, invocations, finished,
                   thrown, sigint_at_entry, executes, messages,
                   tests_configurations, filters, query,
                   substitutions_to_generate, stack, queries_res, assignments,
                   substituted, omitted, slots, substitutions, calls, settings,
                   profiles_file>>

InitSettings ==
    /\ pc = "main"
    /\ lite_output = FALSE
    /\ profiles_file \in ProfilesFiles
    /\ tests_configurations = <<>>
    /\ filters = NoFilters
    /\ NotFormatting
    /\ Constructed

NextSettings ==
    \/ \E cfg \in SettingsConfigs : SetUpTest(cfg)
    \/ TestExecuted

SpecSettings == InitSettings /\ [][NextSettings]_vars

\* C31: while the queries of a test run, each setting of the backend has the
\* value that the test's own <settings> block gives it, else the value that
\* the test's profile gives it, else its default: nothing set for an earlier
\* test is in effect
C31_OnlyOwnSettings ==
    pc = "execute" =>
        LET block == test_config.settings
            profile ==
                IF "profile" \in DOMAIN block /\ profiles_file # ""
                      /\ block["profile"] \in DOMAIN Profiles
                THEN Profiles[block["profile"]]
                ELSE <<>>
            value(text) == IF text = "" THEN "true" ELSE text
        IN \A name \in KnownSettings :
               settings[name] =
                   IF name \in DOMAIN block THEN value(block[name])
                   ELSE IF name \in DOMAIN profile THEN value(profile[name])
                   ELSE "default"

====
